---- MODULE Spec2Model ----
(***************************************************************************)
(* Model of app.py, the Flask backend of the personal finance chatbot.     *)
(*                                                                         *)
(* Text that the code inspects character by character (the backend's       *)
(* continuation, transaction descriptions, numeric strings, the fallback   *)
(* sentence) is a sequence of one-character strings.  Text that the code   *)
(* only passes along (profile sentences, the chat message) is a TLA+       *)
(* string.  An f-string is a record of its template name and its holes.    *)
(* Amounts are integers: the inputs are integral, so float addition and    *)
(* subtraction on them are exact.                                          *)
(***************************************************************************)
EXTENDS Integers, Sequences, FiniteSets, TLC

VARIABLES
  use_hf,            \* module global, line 14/22
  hf_pipeline,       \* module global, line 15/18
  PROFILE_CONTEXTS,  \* module global, line 27
  pc,                \* per worker: position of the request it serves
  endpoint,          \* per worker: route of the request
  data,              \* per worker: request.get_json(force=True)
  prompt,            \* per worker: local `prompt`
  categories,        \* per worker: local `categories` of api_insights
  idx,               \* per worker: position of `for t in txns`
  det,               \* per worker: the deterministic part of the answer
  outcome,           \* per worker: what hf_pipeline(...) did for this request
  attempts,          \* per worker: number of hf_pipeline(...) calls made
  resp,              \* per worker: the HTTP response
  call_failed        \* history: some hf_pipeline(...) call has raised

vars ==
  <<use_hf, hf_pipeline, PROFILE_CONTEXTS, pc, endpoint, data, prompt,
    categories, idx, det, outcome, attempts, resp, call_failed>>

-----------------------------------------------------------------------------
(* Bounds *)

NumWorkers == 2
MaxPieces == 3
MaxLines == 4
MaxTxns == 2

-----------------------------------------------------------------------------
(* Python values *)

Absent == [t |-> "absent"]
None == [t |-> "None"]
Str(s) == [t |-> "str", v |-> s]
Num(n) == [t |-> "num", v |-> n]
List(l) == [t |-> "list", v |-> l]

\* dict.get(key, default)
Get(d, key, default) == IF d[key].t = "absent" THEN default ELSE d[key]

\* truthiness of a value, as used by `x or 0`
Truthy(x) ==
  CASE x.t = "None" -> FALSE
    [] x.t = "str" -> x.v # <<>>
    [] x.t = "num" -> x.v # 0
    [] x.t = "list" -> x.v # <<>>
    [] OTHER -> FALSE

Or(x, y) == IF Truthy(x) THEN x ELSE y

-----------------------------------------------------------------------------
(* Characters and strings *)

\* the whitespace str.strip() removes, as far as the inputs hold any
Whitespace == {" ", "\n", "\t", "\r", "\f"}

RECURSIVE lstrip(_)
lstrip(s) ==
  IF s # <<>> /\ Head(s) \in Whitespace THEN lstrip(Tail(s)) ELSE s

RECURSIVE rstrip(_)
rstrip(s) ==
  IF s # <<>> /\ s[Len(s)] \in Whitespace
  THEN rstrip(SubSeq(s, 1, Len(s) - 1))
  ELSE s

\* str.strip()
strip(s) == rstrip(lstrip(s))

\* s[i..] starts with tok
StartsAt(s, tok, i) ==
  /\ i + Len(tok) - 1 <= Len(s)
  /\ \A j \in 1..Len(tok) : s[i + j - 1] = tok[j]

\* positions where tok occurs in s
Occurrences(s, tok) == {i \in 1..Len(s) : StartsAt(s, tok, i)}

\* `tok in s` for a non-empty tok
In(tok, s) == Occurrences(s, tok) # {}

Min(S) == CHOOSE x \in S : \A y \in S : x <= y

\* str.find(tok) + 1, for a tok that occurs
Find(s, tok) == Min(Occurrences(s, tok))

\* s.split(tok)[0]
SplitFirst(s, tok) ==
  IF In(tok, s) THEN SubSeq(s, 1, Find(s, tok) - 1) ELSE s

\* s.split("\n")
RECURSIVE SplitLines(_)
SplitLines(s) ==
  IF In(<<"\n">>, s)
  THEN <<SplitFirst(s, <<"\n">>)>>
         \o SplitLines(SubSeq(s, Find(s, <<"\n">>) + 1, Len(s)))
  ELSE <<s>>

\* "\n".join(lines)
RECURSIVE JoinLines(_)
JoinLines(lines) ==
  IF lines = <<>> THEN <<>>
  ELSE IF Len(lines) = 1 THEN lines[1]
  ELSE lines[1] \o <<"\n">> \o JoinLines(Tail(lines))

LowerMap ==
  ("A" :> "a") @@ ("B" :> "b") @@ ("C" :> "c") @@ ("D" :> "d") @@
  ("E" :> "e") @@ ("F" :> "f") @@ ("G" :> "g") @@ ("H" :> "h") @@
  ("I" :> "i") @@ ("J" :> "j") @@ ("K" :> "k") @@ ("L" :> "l") @@
  ("M" :> "m") @@ ("N" :> "n") @@ ("O" :> "o") @@ ("P" :> "p") @@
  ("Q" :> "q") @@ ("R" :> "r") @@ ("S" :> "s") @@ ("T" :> "t") @@
  ("U" :> "u") @@ ("V" :> "v") @@ ("W" :> "w") @@ ("X" :> "x") @@
  ("Y" :> "y") @@ ("Z" :> "z")

\* str.lower()
lower(s) ==
  [i \in 1..Len(s) |-> IF s[i] \in DOMAIN LowerMap THEN LowerMap[s[i]] ELSE s[i]]

-----------------------------------------------------------------------------
(* clean_text, lines 37-43 *)

\* as DedupLoop, but dropping a line equal to any kept line
RECURSIVE DedupLoopAll(_, _)
DedupLoopAll(lines, final) ==
  IF lines = <<>> THEN final
  ELSE IF \A i \in 1..Len(final) : strip(Head(lines)) # strip(final[i])
       THEN DedupLoopAll(Tail(lines), Append(final, Head(lines)))
       ELSE DedupLoopAll(Tail(lines), final)

\* the loop of lines 40-42: `final` after the lines seen so far
RECURSIVE DedupLoop(_, _)
DedupLoop(lines, final) ==
  IF lines = <<>> THEN final
  ELSE IF final = <<>> \/ strip(Head(lines)) # strip(final[Len(final)])
       THEN DedupLoop(Tail(lines), Append(final, Head(lines)))
       ELSE DedupLoop(Tail(lines), final)

clean_text(text) == strip(JoinLines(DedupLoop(SplitLines(text), <<>>)))

-----------------------------------------------------------------------------
(* generate_text, lines 48-72 *)

T_User == <<"U", "s", "e", "r", ":">>
T_Assistant == <<"A", "s", "s", "i", "s", "t", "a", "n", "t", ":">>
T_Instruction == <<"I", "n", "s", "t", "r", "u", "c", "t", "i", "o", "n", ":">>
T_Answer == <<"A", "n", "s", "w", "e", "r", ":">>

\* the list of line 65, in its order
StopTokens == <<T_User, T_Assistant, T_Instruction, T_Answer>>

\* the fixed sentence of line 72; "u2014" stands for the em dash
FALLBACK ==
  <<"S", "o", "r", "r", "y", " ", "u2014", " ", "A", "I", " ", "b", "a",
    "c", "k", "e", "n", "d", " ", "n", "o", "t", " ", "c", "o", "n", "f",
    "i", "g", "u", "r", "e", "d", ".", " ", "I", "n", "s", "t", "a", "l",
    "l", " ", "H", "u", "g", "g", "i", "n", "g", "F", "a", "c", "e", "/",
    "T", "o", "r", "c", "h", " ", "o", "r", " ", "c", "o", "n", "n", "e",
    "c", "t", " ", "I", "B", "M", "/", "G", "r", "a", "n", "i", "t", "e",
    ".">>

\* as StopAt, but cutting at the last occurrence (rsplit)
StopAtLast(result, stop_token) ==
  IF In(stop_token, result)
  THEN strip(SubSeq(result, 1,
                    (CHOOSE i \in Occurrences(result, stop_token) :
                       \A j \in Occurrences(result, stop_token) : j <= i) - 1))
  ELSE result

\* one iteration of the loop of lines 65-67
StopAt(result, stop_token) ==
  IF In(stop_token, result)
  THEN strip(SplitFirst(result, stop_token))
  ELSE result

\* as StopLoop, but leaving the loop at the first marker found (break)
RECURSIVE StopLoopBreak(_, _)
StopLoopBreak(result, i) ==
  IF i > Len(StopTokens) THEN result
  ELSE IF In(StopTokens[i], result) THEN StopAt(result, StopTokens[i])
  ELSE StopLoopBreak(result, i + 1)

\* the loop of lines 65-67 from its i-th iteration on
RECURSIVE StopLoop(_, _)
StopLoop(result, i) ==
  IF i > Len(StopTokens) THEN result
  ELSE StopLoop(StopAt(result, StopTokens[i]), i + 1)

\* line 49
BackendLoaded == use_hf /\ hf_pipeline # "None"

\* what hf_pipeline(prompt, ...) can do when called with prompt p:
\* [k |-> "raise"]  it raised
\* [k |-> "bad"]    it returned something out[0]['generated_text'] fails on
\* [k |-> "text"]   it returned the prompt followed by a continuation
Raise == [k |-> "raise"]
Bad == [k |-> "bad"]
Text(p, c) == [k |-> "text", generated_text |-> [echo |-> p, cont |-> c]]
Uncalled == [k |-> "uncalled"]

\* lines 61-62: out[0]['generated_text'][len(prompt):].strip()
Continuation(out) == strip(out.generated_text.cont)

\* as generate_text, but with the fallback only where the backend is not
\* loaded: a failed call returns nothing
generate_text_no_except(out) ==
  IF BackendLoaded
  THEN IF out.k = "text" THEN clean_text(StopLoop(Continuation(out), 1))
       ELSE <<>>
  ELSE FALLBACK

\* lines 49-72; out is what the call of line 51 did (Uncalled when line 49
\* skips it)
generate_text(out) ==
  IF BackendLoaded /\ out.k = "text"
  THEN clean_text(StopLoop(Continuation(out), 1))
  ELSE FALLBACK

-----------------------------------------------------------------------------
(* Numbers *)

DigitVal ==
  ("0" :> 0) @@ ("1" :> 1) @@ ("2" :> 2) @@ ("3" :> 3) @@ ("4" :> 4) @@
  ("5" :> 5) @@ ("6" :> 6) @@ ("7" :> 7) @@ ("8" :> 8) @@ ("9" :> 9)

RECURSIVE DigitsValue(_)
DigitsValue(s) ==
  IF s = <<>> THEN 0
  ELSE 10 * DigitsValue(SubSeq(s, 1, Len(s) - 1)) + DigitVal[s[Len(s)]]

IsDigits(s) == s # <<>> /\ \A i \in 1..Len(s) : s[i] \in DOMAIN DigitVal

Failed == [ok |-> FALSE]
Ok(v) == [ok |-> TRUE, v |-> v]

\* float(str) on the integral decimal literals: optional surrounding
\* whitespace, optional sign, digits; anything else is a ValueError
ParseFloat(s) ==
  LET u == strip(s)
      signed == u # <<>> /\ u[1] \in {"+", "-"}
      digits == IF signed THEN Tail(u) ELSE u
  IN IF IsDigits(digits)
     THEN Ok(IF signed /\ u[1] = "-" THEN 0 - DigitsValue(digits)
                                     ELSE DigitsValue(digits))
     ELSE Failed

\* float(x)
Float(x) ==
  CASE x.t = "num" -> Ok(x.v)
    [] x.t = "str" -> ParseFloat(x.v)
    [] OTHER -> Failed

\* float(d.get(key, 0) or 0), lines 106, 110, 132
Amount(d, key) == Float(Or(Get(d, key, Num(0)), Num(0)))

\* as Savings, with the operands swapped
SavingsSwapped(income, total_spent) == total_spent - income

\* line 111
Savings(income, total_spent) == income - total_spent

\* sum(float(t.get("amount", 0) or 0) for t in txns), line 110
RECURSIVE SumAmounts(_)
SumAmounts(txns) ==
  IF txns = <<>> THEN Ok(0)
  ELSE LET a == Amount(Head(txns), "amount")
           rest == SumAmounts(Tail(txns))
       IN IF a.ok /\ rest.ok THEN Ok(a.v + rest.v) ELSE Failed

-----------------------------------------------------------------------------
(* Profile contexts, lines 27-32 *)

ProfileContexts ==
  [student |-> "User is a student with limited income. Explain things in simple language with practical, low-cost steps.",
   professional |-> "User is a working professional. Provide formal, actionable advice including tax and investment options.",
   retired |-> "User is retired or near-retired. Focus on safety, fixed income, healthcare, and low-risk options.",
   default |-> "Provide clear and practical personal finance advice."]

\* `key in PROFILE_CONTEXTS`
InContexts(key) == key.t = "str" /\ key.v \in DOMAIN PROFILE_CONTEXTS

\* PROFILE_CONTEXTS.get(key, default)
ContextsGet(key, default) ==
  IF InContexts(key) THEN PROFILE_CONTEXTS[key.v] ELSE default

\* lines 90, 92, 94 of api_chat
ChatContext(d) ==
  LET demographic == Get(d, "demographic", Str("default"))
      validated == IF InContexts(demographic) THEN demographic
                   ELSE Str("default")
  IN ContextsGet(validated, "")

\* lines 108, 115 of api_budget and lines 127, 151 of api_insights
RawContext(d) == ContextsGet(Get(d, "demographic", Str("default")), "")

-----------------------------------------------------------------------------
(* Transaction categorizer, lines 131-143 *)

\* any(k in desc for k in keys)
AnyIn(keys, desc) == \E i \in 1..Len(keys) : In(keys[i], desc)

RentKeys == << <<"r", "e", "n", "t">>, <<"h", "o", "m", "e">> >>
DiningKeys ==
  << <<"f", "o", "o", "d">>, <<"d", "i", "n", "e">>,
     <<"r", "e", "s", "t", "a", "u", "r", "a", "n", "t">>,
     <<"c", "a", "f", "e">> >>
GroceryKeys ==
  << <<"g", "r", "o", "c", "e", "r", "y">>,
     <<"s", "u", "p", "e", "r", "m", "a", "r", "k", "e", "t">> >>
TaxKeys ==
  << <<"t", "a", "x">>, <<"i", "n", "c", "o", "m", "e", " ", "t", "a", "x">> >>

\* line 131: (t.get("desc", "") or "").lower()
Desc(t) == lower(Or(Get(t, "desc", Str(<<>>)), Str(<<>>)).v)

\* as Category, but with the Dining rule tried before the Rent rule
CategoryDiningFirst(desc) ==
  IF AnyIn(DiningKeys, desc) THEN "Dining"
  ELSE IF AnyIn(RentKeys, desc) THEN "Rent"
  ELSE IF AnyIn(GroceryKeys, desc) THEN "Grocery"
  ELSE IF AnyIn(TaxKeys, desc) THEN "Taxes"
  ELSE "Other"

\* lines 133-142
Category(desc) ==
  IF AnyIn(RentKeys, desc) THEN "Rent"
  ELSE IF AnyIn(DiningKeys, desc) THEN "Dining"
  ELSE IF AnyIn(GroceryKeys, desc) THEN "Grocery"
  ELSE IF AnyIn(TaxKeys, desc) THEN "Taxes"
  ELSE "Other"

\* a dict is the sequence of its items in insertion order
Item(key, val) == [key |-> key, val |-> val]
Keys(dict) == {dict[i].key : i \in 1..Len(dict)}
Slot(dict, key) == CHOOSE i \in 1..Len(dict) : dict[i].key = key

\* dict.get(key, default)
DictGet(dict, key, default) ==
  IF key \in Keys(dict) THEN dict[Slot(dict, key)].val ELSE default

\* dict[key] = val
DictSet(dict, key, val) ==
  IF key \in Keys(dict)
  THEN [dict EXCEPT ![Slot(dict, key)] = Item(key, val)]
  ELSE Append(dict, Item(key, val))

\* line 143
Accumulate(dict, cat, amt) == DictSet(dict, cat, DictGet(dict, cat, 0) + amt)

\* as MaxItem, but returning the last of the largest items
MaxItemLast(dict) ==
  dict[CHOOSE i \in 1..Len(dict) :
         /\ \A j \in 1..Len(dict) : dict[j].val <= dict[i].val
         /\ \A j \in (i + 1)..Len(dict) : dict[j].val < dict[i].val]

\* line 146: max(categories.items(), key=lambda x: x[1]) returns the first
\* item, in iteration order, that no later item exceeds
MaxItem(dict) ==
  dict[Min({i \in 1..Len(dict) : \A j \in 1..Len(dict) : dict[j].val <= dict[i].val})]

-----------------------------------------------------------------------------
(* Requests *)

Workers == 1..NumWorkers

NoData ==
  [message |-> Absent, demographic |-> Absent, complexity |-> Absent,
   incomeMonthly |-> Absent, transactions |-> Absent]
NoPrompt == [template |-> "none"]
NoDet == [k |-> "none"]
NoResp == [status |-> 0]

\* an uncaught exception in a view function: Flask answers 500
InternalServerError == [status |-> 500]

\* jsonify({field: head + ai}), status 200
Response(field, head, ai) ==
  [status |-> 200, field |-> field, head |-> head, ai |-> ai]

Init ==
  /\ \/ use_hf = TRUE /\ hf_pipeline = "pipeline"
     \/ use_hf = FALSE /\ hf_pipeline = "None"
  /\ PROFILE_CONTEXTS = ProfileContexts
  /\ pc = [w \in Workers |-> "idle"]
  /\ endpoint = [w \in Workers |-> "none"]
  /\ data = [w \in Workers |-> NoData]
  /\ prompt = [w \in Workers |-> NoPrompt]
  /\ categories = [w \in Workers |-> <<>>]
  /\ idx = [w \in Workers |-> 0]
  /\ det = [w \in Workers |-> NoDet]
  /\ outcome = [w \in Workers |-> Uncalled]
  /\ attempts = [w \in Workers |-> 0]
  /\ resp = [w \in Workers |-> NoResp]
  /\ call_failed = FALSE

Globals == <<use_hf, hf_pipeline, PROFILE_CONTEXTS>>

\* the request is routed to a view function
Route(w, route, d) ==
  /\ pc[w] = "idle"
  /\ endpoint' = [endpoint EXCEPT ![w] = route]
  /\ data' = [data EXCEPT ![w] = d]

\* the view function raised
Abort(w) ==
  /\ resp' = [resp EXCEPT ![w] = InternalServerError]
  /\ pc' = [pc EXCEPT ![w] = "done"]

\* api_chat up to the call of generate_text, lines 88-96
api_chat(w, d) ==
  /\ Route(w, "chat", d)
  /\ prompt' = [prompt EXCEPT ![w] =
                  [template |-> "chat", context |-> ChatContext(d),
                   holes |-> <<Get(d, "complexity", Str("moderate")),
                               Get(d, "message", Str(""))>>]]
  /\ det' = [det EXCEPT ![w] = [k |-> "chat"]]
  /\ pc' = [pc EXCEPT ![w] = "gen"]
  /\ UNCHANGED <<Globals, categories, idx, outcome, attempts, resp, call_failed>>

\* api_budget up to the call of generate_text, lines 105-115
api_budget(w, d) ==
  LET income == Amount(d, "incomeMonthly")
      txns == Get(d, "transactions", List(<<>>))
      total_spent == IF txns.t = "list" THEN SumAmounts(txns.v) ELSE Failed
  IN /\ Route(w, "budget", d)
     /\ IF income.ok /\ total_spent.ok
        THEN /\ det' = [det EXCEPT ![w] =
                          [k |-> "budget", income |-> income.v,
                           total_spent |-> total_spent.v,
                           savings |-> Savings(income.v, total_spent.v)]]
             /\ prompt' = [prompt EXCEPT ![w] =
                             [template |-> "budget", context |-> RawContext(d),
                              holes |-> <<txns, income.v>>]]
             /\ pc' = [pc EXCEPT ![w] = "gen"]
             /\ UNCHANGED resp
        ELSE /\ Abort(w)
             /\ UNCHANGED <<det, prompt>>
     /\ UNCHANGED <<Globals, categories, idx, outcome, attempts, call_failed>>

\* api_insights up to the loop, lines 125-130
api_insights(w, d) ==
  LET txns == Get(d, "transactions", List(<<>>))
  IN /\ Route(w, "insights", d)
     /\ categories' = [categories EXCEPT ![w] = <<>>]
     /\ IF txns.t = "list"
        THEN /\ idx' = [idx EXCEPT ![w] = 1]
             /\ pc' = [pc EXCEPT ![w] = "loop"]
             /\ UNCHANGED resp
        ELSE /\ Abort(w)
             /\ UNCHANGED idx
     /\ UNCHANGED <<Globals, prompt, det, outcome, attempts, call_failed>>

\* the list the loop of line 130 runs over
Txns(w) == Get(data[w], "transactions", List(<<>>)).v

\* as insights_step, but with `categories` a module-level dict that every
\* request writes
insights_step_shared(w) ==
  /\ pc[w] = "loop"
  /\ idx[w] <= Len(Txns(w))
  /\ LET t == Txns(w)[idx[w]]
         desc == Desc(t)
         amt == Amount(t, "amount")
     IN IF amt.ok
        THEN /\ categories' = [v \in Workers |->
                                 Accumulate(categories[w], Category(desc), amt.v)]
             /\ idx' = [idx EXCEPT ![w] = idx[w] + 1]
             /\ UNCHANGED <<pc, resp>>
        ELSE /\ Abort(w)
             /\ UNCHANGED <<categories, idx>>
  /\ UNCHANGED <<Globals, endpoint, data, prompt, det, outcome, attempts, call_failed>>

\* one iteration of the loop, lines 130-143
insights_step(w) ==
  /\ pc[w] = "loop"
  /\ idx[w] <= Len(Txns(w))
  /\ LET t == Txns(w)[idx[w]]
         desc == Desc(t)
         amt == Amount(t, "amount")
     IN IF amt.ok
        THEN /\ categories' = [categories EXCEPT ![w] =
                                 Accumulate(categories[w], Category(desc), amt.v)]
             /\ idx' = [idx EXCEPT ![w] = idx[w] + 1]
             /\ UNCHANGED <<pc, resp>>
        ELSE /\ Abort(w)
             /\ UNCHANGED <<categories, idx>>
  /\ UNCHANGED <<Globals, endpoint, data, prompt, det, outcome, attempts, call_failed>>

\* after the loop, up to the call of generate_text, lines 145-151
insights_report(w) ==
  /\ pc[w] = "loop"
  /\ idx[w] > Len(Txns(w))
  /\ det' = [det EXCEPT ![w] =
               IF categories[w] # <<>>
               THEN [k |-> "top", top_cat |-> MaxItem(categories[w])]
               ELSE [k |-> "no_transactions"]]
  /\ prompt' = [prompt EXCEPT ![w] =
                  [template |-> "insights", context |-> RawContext(data[w]),
                   holes |-> <<categories[w]>>]]
  /\ pc' = [pc EXCEPT ![w] = "gen"]
  /\ UNCHANGED <<Globals, endpoint, data, categories, idx, outcome, attempts, resp, call_failed>>

\* the JSON field each view function answers in, lines 98, 118, 154
Field(route) ==
  CASE route = "chat" -> "reply"
    [] route = "budget" -> "summary"
    [] route = "insights" -> "insights"

\* the call of generate_text and the rest of the view function
Answer(w, out) ==
  /\ outcome' = [outcome EXCEPT ![w] = out]
  /\ resp' = [resp EXCEPT ![w] =
                Response(Field(endpoint[w]), det[w], generate_text(out))]
  /\ pc' = [pc EXCEPT ![w] = "done"]
  /\ UNCHANGED <<Globals, endpoint, data, prompt, categories, idx, det>>

\* generate_text when line 49 is false: no backend call
generate_unavailable(w) ==
  /\ pc[w] = "gen"
  /\ ~BackendLoaded
  /\ Answer(w, Uncalled)
  /\ UNCHANGED <<attempts, call_failed>>

\* generate_text when the call of line 51 raises, or line 61 does
generate_failed(w, out) ==
  /\ pc[w] = "gen"
  /\ BackendLoaded
  /\ out \in {Raise, Bad}
  /\ Answer(w, out)
  /\ attempts' = [attempts EXCEPT ![w] = attempts[w] + 1]
  /\ call_failed' = TRUE

\* generate_text when the backend returns the prompt and continuation c
generate_ok(w, c) ==
  /\ pc[w] = "gen"
  /\ BackendLoaded
  /\ Answer(w, Text(prompt[w], c))
  /\ attempts' = [attempts EXCEPT ![w] = attempts[w] + 1]
  /\ UNCHANGED call_failed

\* the response is sent and the worker takes the next request
finish(w) ==
  /\ pc[w] = "done"
  /\ pc' = [pc EXCEPT ![w] = "idle"]
  /\ endpoint' = [endpoint EXCEPT ![w] = "none"]
  /\ data' = [data EXCEPT ![w] = NoData]
  /\ prompt' = [prompt EXCEPT ![w] = NoPrompt]
  /\ categories' = [categories EXCEPT ![w] = <<>>]
  /\ idx' = [idx EXCEPT ![w] = 0]
  /\ det' = [det EXCEPT ![w] = NoDet]
  /\ outcome' = [outcome EXCEPT ![w] = Uncalled]
  /\ attempts' = [attempts EXCEPT ![w] = 0]
  /\ resp' = [resp EXCEPT ![w] = NoResp]
  /\ UNCHANGED <<Globals, call_failed>>

-----------------------------------------------------------------------------
(* Inputs *)

\* continuations built from up to n pieces
Pieces ==
  {T_User, T_Assistant, T_Instruction, T_Answer,
   <<"A">>, <<"B">>, <<" ">>, <<"\n">>}

RECURSIVE PieceTexts(_)
PieceTexts(n) ==
  IF n = 0 THEN {<<>>}
  ELSE PieceTexts(n - 1) \cup {t \o p : t \in PieceTexts(n - 1), p \in Pieces}

\* continuations of up to n lines
LinePool == {<<>>, <<"A">>, <<"A", " ">>, <<" ", "A">>, <<"B">>, <<"C">>}

LineTexts(n) ==
  {JoinLines(ls) : ls \in UNION {[1..k -> LinePool] : k \in 1..n}}

SixLines ==
  <<"A", "\n", "A", "\n", "B", "\n", "B", "\n", "B", "\n", "C">>
AnswerBeforeUser ==
  <<"o", "k", " ">> \o T_Answer \o <<" ", "n", "o", " ">> \o T_User \o <<" ", "x">>

TextConts ==
  PieceTexts(MaxPieces) \cup LineTexts(MaxLines) \cup {SixLines, AnswerBeforeUser}

ApiConts == {<<"A", "\n", "A">>, <<"B", " ">> \o T_User \o <<"A">>}

D_RentPayment == <<"R", "e", "n", "t", " ", "p", "a", "y", "m", "e", "n", "t">>
D_Cafe == <<"C", "a", "f", "e">>
D_HomeFood == <<"H", "o", "m", "e", " ", "f", "o", "o", "d">>
D_SupermarketTax ==
  <<"S", "u", "p", "e", "r", "m", "a", "r", "k", "e", "t", " ", "t", "a", "x">>
D_IncomeTax == <<"I", "N", "C", "O", "M", "E", " ", "T", "A", "X">>
D_Misc == <<"M", "i", "s", "c">>

Txn(desc, amount) == [desc |-> desc, amount |-> amount]

TxnPool ==
  {Txn(Str(D_RentPayment), Num(1000)),
   Txn(Str(D_Cafe), Num(200)),
   Txn(Str(D_HomeFood), Num(200)),
   Txn(Str(D_SupermarketTax), Str(<<"2", "0", "0">>)),
   Txn(Str(D_IncomeTax), Num(2000)),
   Txn(Absent, Absent),
   Txn(None, None),
   Txn(Str(<<>>), Str(<<>>)),
   Txn(Str(D_Misc), Str(<<"a", "b", "c">>))}

TxnLists(n) == UNION {[1..k -> TxnPool] : k \in 0..n}

Demographics ==
  {Absent, None, Str("student"), Str("professional"), Str("retired"),
   Str("default"), Str("teen")}

\* the demographics tried where income and transactions vary too
SomeDemographics == {Absent, Str("retired"), Str("teen")}

Incomes ==
  {Absent, None, Num(5000), Str(<<"5", "0", "0", "0">>), Str(<<"a", "b", "c">>)}

Transactions == {Absent, None} \cup {List(l) : l \in TxnLists(MaxTxns)}

ChatRequests ==
  {[NoData EXCEPT !.demographic = dm, !.message = m, !.complexity = c] :
     dm \in Demographics, m \in {Absent, Str("How do I save?")},
     c \in {Absent, Str("simple")}}

BudgetRequests ==
  {[NoData EXCEPT !.demographic = dm, !.incomeMonthly = i, !.transactions = ts] :
     dm \in SomeDemographics, i \in Incomes, ts \in Transactions}

InsightsRequests ==
  {[NoData EXCEPT !.demographic = dm, !.transactions = ts] :
     dm \in SomeDemographics, ts \in Transactions}

\* one request, for the run that varies the continuation
OneRequest ==
  {[NoData EXCEPT !.demographic = Str("student"), !.incomeMonthly = Num(5000),
                  !.transactions = List(<<Txn(Str(D_RentPayment), Num(1000)),
                                          Txn(Str(D_Cafe), Num(200))>>)]}

\* a few requests, for the run that varies the interleaving
FewRequests ==
  OneRequest \cup
  {NoData,
   [NoData EXCEPT !.transactions = List(<<Txn(Str(D_Cafe), Num(200)),
                                          Txn(Str(D_Misc), Str(<<"a", "b", "c">>))>>)]}

-----------------------------------------------------------------------------
(* Specifications *)

\* what worker w can do, for requests and continuations from the given sets
Serve(w, chats, budgets, insights, conts) ==
  \/ pc[w] = "idle" /\ \E d \in chats : api_chat(w, d)
  \/ pc[w] = "idle" /\ \E d \in budgets : api_budget(w, d)
  \/ pc[w] = "idle" /\ \E d \in insights : api_insights(w, d)
  \/ insights_step(w)
  \/ insights_report(w)
  \/ generate_unavailable(w)
  \/ \E out \in {Raise, Bad} : generate_failed(w, out)
  \/ pc[w] = "gen" /\ \E c \in conts : generate_ok(w, c)
  \/ finish(w)

\* one worker, every request shape
Next == Serve(1, ChatRequests, BudgetRequests, InsightsRequests, ApiConts)
Spec == Init /\ [][Next]_vars

\* one worker, every continuation
NextText == Serve(1, OneRequest, OneRequest, OneRequest, TextConts)
SpecText == Init /\ [][NextText]_vars

\* concurrent workers
NextConc ==
  \E w \in Workers : Serve(w, FewRequests, FewRequests, FewRequests, ApiConts)
SpecConc == Init /\ [][NextConc]_vars

-----------------------------------------------------------------------------
(* Properties of generate_text and clean_text, under SpecText *)

\* worker w has answered with text the backend generated
Generated(w) ==
  pc[w] = "done" /\ resp[w].status = 200 /\ outcome[w].k = "text"

\* the continuation worker w's backend call returned, stripped (line 62)
Cont(w) == Continuation(outcome[w])

Markers == {StopTokens[i] : i \in 1..Len(StopTokens)}
HasMarker(text) == \E m \in Markers : In(m, text)

\* C1: the text generate_text returns, on the success path and on the
\* fallback path, contains none of "User:", "Assistant:", "Instruction:",
\* "Answer:".
C1_NoMarkerInOutput ==
  \A w \in Workers :
    (pc[w] = "done" /\ resp[w].status = 200) => ~HasMarker(resp[w].ai)

\* a continuation with two markers, the later-checked one first, was answered
C1_Witness ==
  \E w \in Workers :
    /\ Generated(w)
    /\ In(T_Instruction, Cont(w))
    /\ In(T_User, Cont(w))
    /\ Find(Cont(w), T_Instruction) < Find(Cont(w), T_User)

\* C2 as stated: with "Answer:" before "User:" in the continuation, the text
\* returned is the text cut at the first "User:", the first-checked marker.
C2_CutAtPriorityMarker ==
  \A w \in Workers :
    (/\ Generated(w)
     /\ In(T_Answer, Cont(w))
     /\ In(T_User, Cont(w))
     /\ Find(Cont(w), T_Answer) < Find(Cont(w), T_User))
    => resp[w].ai = clean_text(strip(SplitFirst(Cont(w), T_User)))

\* where the earliest marker of text starts
EarliestMarker(text) == Min(UNION {Occurrences(text, m) : m \in Markers})

\* C2 amended: the cuts for all four markers are applied one after the other,
\* so the text returned is the text before the marker that occurs earliest by
\* position; with "Answer:" before "User:" that is the position of "Answer:".
C2_CutAtEarliestMarker ==
  \A w \in Workers :
    (Generated(w) /\ HasMarker(Cont(w)))
    => resp[w].ai =
         clean_text(strip(SubSeq(Cont(w), 1, EarliestMarker(Cont(w)) - 1)))

\* "ok Answer: no User: x" was answered with "ok"
C2_Witness ==
  \E w \in Workers :
    /\ Generated(w)
    /\ outcome[w].generated_text.cont = AnswerBeforeUser
    /\ resp[w].ai = <<"o", "k">>

\* the text handed to clean_text at line 69
CleanInput(w) == StopLoop(Cont(w), 1)

Trimmed(lines) == [i \in 1..Len(lines) |-> strip(lines[i])]

\* the lines of a list whose trimmed value differs from that of the line
\* before them, in order
RECURSIVE KeepChanges(_, _)
KeepChanges(lines, i) ==
  IF i > Len(lines) THEN <<>>
  ELSE IF i = 1 \/ strip(lines[i]) # strip(lines[i - 1])
       THEN <<lines[i]>> \o KeepChanges(lines, i + 1)
       ELSE KeepChanges(lines, i + 1)

NoAdjacentRepeat(lines) ==
  \A i \in 1..(Len(lines) - 1) : strip(lines[i]) # strip(lines[i + 1])

ABA == <<"A", "\n", "B", "\n", "A">>
ABC == <<"A", "\n", "B", "\n", "C">>

\* C6: clean_text keeps the lines in order and drops exactly the lines whose
\* trimmed value equals that of the preceding kept line: the output has no
\* two adjacent lines equal after trimming, A,A,B,B,B,C gives A,B,C and
\* A,B,A is kept whole.
C6_SingleLookbackDedup ==
  \A w \in Workers :
    Generated(w)
    => LET out == SplitLines(resp[w].ai)
           inp == SplitLines(CleanInput(w))
       IN /\ Trimmed(out) = Trimmed(KeepChanges(inp, 1))
          /\ NoAdjacentRepeat(out)
          /\ CleanInput(w) = SixLines => resp[w].ai = ABC
          /\ CleanInput(w) = ABA => resp[w].ai = ABA

\* A,A,B,B,B,C was answered with A,B,C
C6_Witness ==
  \E w \in Workers :
    Generated(w) /\ CleanInput(w) = SixLines /\ resp[w].ai = ABC

-----------------------------------------------------------------------------
(* Properties of the endpoints, under Spec *)

\* worker w's request got as far as calling generate_text
CalledGenerate(w) == pc[w] = "done" /\ prompt[w].template # "none"

\* generate_text took its fallback path for worker w
FellBack(w) ==
  CalledGenerate(w) /\ (~BackendLoaded \/ outcome[w].k \in {"raise", "bad"})

\* C3: when the backend did not load, or its call or the post-processing
\* raises, generate_text returns exactly the fallback sentence after at most
\* one backend call and raises nothing: the endpoint answers 200 with the
\* sentence in reply, summary or insights.
C3_FallbackOnFailure ==
  \A w \in Workers :
    FellBack(w)
    => /\ resp[w].status = 200
       /\ resp[w].ai = FALLBACK
       /\ resp[w].field = Field(endpoint[w])
       /\ attempts[w] = (IF BackendLoaded THEN 1 ELSE 0)
       /\ attempts[w] <= 1

\* a backend call raised and the budget endpoint answered 200 with the
\* fallback sentence in summary
C3_Witness ==
  \E w \in Workers :
    /\ FellBack(w)
    /\ outcome[w].k = "raise"
    /\ resp[w] = Response("summary", det[w], FALLBACK)
    /\ attempts[w] = 1

KnownDemographics == {"student", "professional", "retired"}

\* the demographic key of request d is absent or not a known one
UnknownDemographic(d) ==
  ~(d.demographic.t = "str" /\ d.demographic.v \in KnownDemographics)

\* C4: for every request to any of the three endpoints whose demographic is
\* absent or not one of student, professional, retired, the context at the
\* start of the prompt is the default context sentence.
C4_DefaultContext ==
  \A w \in Workers :
    (prompt[w].template # "none" /\ UnknownDemographic(data[w]))
    => prompt[w].context = ProfileContexts.default

\* the number the claim gives a value: zero unless it parses
ZeroUnlessNumber(x) == IF Float(x).ok THEN Float(x).v ELSE 0

RECURSIVE SumZeroUnlessNumber(_)
SumZeroUnlessNumber(txns) ==
  IF txns = <<>> THEN 0
  ELSE ZeroUnlessNumber(Head(txns).amount) + SumZeroUnlessNumber(Tail(txns))

\* C5: in /api/budget and /api/insights an amount (or incomeMonthly) that is
\* absent, null, empty or unparseable counts as zero and the request is
\* never rejected: the endpoint answers 200.
C5_BadAmountsAreZero ==
  \A w \in Workers :
    (/\ pc[w] = "done"
     /\ endpoint[w] \in {"budget", "insights"}
     /\ data[w].transactions.t \in {"absent", "list"})
    => /\ resp[w].status = 200
       /\ endpoint[w] = "budget"
          => /\ resp[w].head.income = ZeroUnlessNumber(data[w].incomeMonthly)
             /\ resp[w].head.total_spent = SumZeroUnlessNumber(Txns(w))

\* the category the rule list of the claim gives a description
Matches(desc, words) == \E k \in words : In(k, lower(desc))

RuleCategory(desc) ==
  IF Matches(desc, {<<"r", "e", "n", "t">>, <<"h", "o", "m", "e">>})
  THEN "Rent"
  ELSE IF Matches(desc, {<<"f", "o", "o", "d">>, <<"d", "i", "n", "e">>,
                         <<"r", "e", "s", "t", "a", "u", "r", "a", "n", "t">>,
                         <<"c", "a", "f", "e">>})
  THEN "Dining"
  ELSE IF Matches(desc, {<<"g", "r", "o", "c", "e", "r", "y">>,
                         <<"s", "u", "p", "e", "r", "m", "a", "r", "k", "e", "t">>})
  THEN "Grocery"
  ELSE IF Matches(desc, {<<"t", "a", "x">>,
                         <<"i", "n", "c", "o", "m", "e", " ", "t", "a", "x">>})
  THEN "Taxes"
  ELSE "Other"

CategoryNames == {"Rent", "Dining", "Grocery", "Taxes", "Other"}

\* the description of a transaction as text, empty when absent or null
DescText(t) == IF t.desc.t = "str" THEN t.desc.v ELSE <<>>

\* the sum of the amounts of txns[1..n] that the rule list puts in category c
RECURSIVE RuleTotal(_, _, _)
RuleTotal(txns, n, c) ==
  IF n = 0 THEN 0
  ELSE RuleTotal(txns, n - 1, c)
       + (IF RuleCategory(DescText(txns[n])) = c
          THEN ZeroUnlessNumber(txns[n].amount) ELSE 0)

\* the transactions worker w's loop has accumulated so far
Scanned(w) == IF pc[w] = "loop" THEN idx[w] - 1 ELSE Len(Txns(w))

\* worker w serves /api/insights and has not raised
Insights(w) ==
  endpoint[w] = "insights" /\ pc[w] \in {"loop", "gen", "done"}
  /\ resp[w].status # 500

\* C7: /api/insights gives each transaction exactly one of Rent, Dining,
\* Grocery, Taxes, Other, by case-insensitive substring match with the
\* rules tried in that order, first match winning, and adds its amount to
\* that category's total and to no other.
C7_FirstRuleWins ==
  \A w \in Workers :
    Insights(w)
    => /\ Keys(categories[w]) =
            {RuleCategory(DescText(Txns(w)[i])) : i \in 1..Scanned(w)}
       /\ Len(categories[w]) = Cardinality(Keys(categories[w]))
       /\ \A c \in CategoryNames :
            DictGet(categories[w], c, 0) = RuleTotal(Txns(w), Scanned(w), c)

\* "Home food" (Rent and Dining keywords) and "INCOME TAX" were accumulated:
\* the first into Rent, the second into Taxes
C7_Witness ==
  \E w \in Workers :
    /\ Insights(w)
    /\ pc[w] = "gen"
    /\ Txns(w) = <<Txn(Str(D_HomeFood), Num(200)), Txn(Str(D_IncomeTax), Num(2000))>>
    /\ categories[w] = <<Item("Rent", 200), Item("Taxes", 2000)>>

\* where category c is first seen in txns
FirstSeen(txns, c) ==
  Min({i \in 1..Len(txns) : RuleCategory(DescText(txns[i])) = c})

\* C8: for a non-empty transaction list /api/insights reports the category
\* with the largest total and, among categories that tie for it, the one
\* first seen in the transactions; for an empty list it reports none and
\* answers the 'No transactions supplied' line.
C8_TopCategory ==
  \A w \in Workers :
    (Insights(w) /\ pc[w] \in {"gen", "done"})
    => LET txns == Txns(w)
           seen == {RuleCategory(DescText(txns[i])) : i \in 1..Len(txns)}
           total(c) == RuleTotal(txns, Len(txns), c)
           largest == {c \in seen : \A e \in seen : total(e) <= total(c)}
       IN IF txns = <<>>
          THEN det[w] = [k |-> "no_transactions"]
          ELSE /\ det[w].k = "top"
               /\ det[w].top_cat.key \in largest
               /\ det[w].top_cat.val = total(det[w].top_cat.key)
               /\ \A c \in largest :
                    FirstSeen(txns, det[w].top_cat.key) <= FirstSeen(txns, c)

\* Grocery and Dining tie at 200 and Grocery, seen first, is reported
C8_Witness ==
  \E w \in Workers :
    /\ Insights(w)
    /\ pc[w] = "done"
    /\ categories[w] = <<Item("Grocery", 200), Item("Dining", 200)>>
    /\ resp[w].head = [k |-> "top", top_cat |-> Item("Grocery", 200)]

\* C9: the summary block of /api/budget has Total Spent equal to the sum of
\* the transaction amounts and Estimated Savings equal to income minus Total
\* Spent (income 5000 and one amount of 2000 give 2000 and 3000), whatever
\* the backend generates or whether it falls back.
C9_BudgetBlock ==
  \A w \in Workers :
    (pc[w] = "done" /\ endpoint[w] = "budget" /\ resp[w].status = 200)
    => LET income == ZeroUnlessNumber(data[w].incomeMonthly)
           spent == SumZeroUnlessNumber(Txns(w))
       IN /\ resp[w].head =
               [k |-> "budget", income |-> income, total_spent |-> spent,
                savings |-> income - spent]
          /\ (data[w].incomeMonthly = Num(5000)
              /\ Len(Txns(w)) = 1 /\ Txns(w)[1].amount = Num(2000))
             => (resp[w].head.total_spent = 2000 /\ resp[w].head.savings = 3000)

\* income 5000 and one transaction of 2000 were summarised as 2000 and 3000
\* beside the fallback sentence
C9_Witness ==
  \E w \in Workers :
    /\ pc[w] = "done" /\ endpoint[w] = "budget"
    /\ resp[w].status = 200
    /\ data[w].incomeMonthly = Num(5000)
    /\ Len(Txns(w)) = 1 /\ Txns(w)[1].amount = Num(2000)
    /\ resp[w].head.total_spent = 2000 /\ resp[w].head.savings = 3000
    /\ resp[w].ai = FALLBACK

-----------------------------------------------------------------------------
(* Properties of concurrent requests, under SpecConc *)

\* `categories` of api_insights after the whole loop over txns, or Failed
RECURSIVE CategoriesAlone(_, _)
CategoriesAlone(txns, dict) ==
  IF txns = <<>> THEN Ok(dict)
  ELSE LET amt == Amount(Head(txns), "amount")
       IN IF amt.ok
          THEN CategoriesAlone(Tail(txns),
                 Accumulate(dict, Category(Desc(Head(txns))), amt.v))
          ELSE Failed

\* the response request d to route gets when it is the only request served
\* and its backend call does out
ResponseAlone(route, d, out) ==
  LET txns == Get(d, "transactions", List(<<>>))
      income == Amount(d, "incomeMonthly")
      spent == IF txns.t = "list" THEN SumAmounts(txns.v) ELSE Failed
      cats == IF txns.t = "list" THEN CategoriesAlone(txns.v, <<>>) ELSE Failed
  IN CASE route = "chat" ->
            Response("reply", [k |-> "chat"], generate_text(out))
       [] route = "budget" ->
            IF income.ok /\ spent.ok
            THEN Response("summary",
                          [k |-> "budget", income |-> income.v,
                           total_spent |-> spent.v,
                           savings |-> income.v - spent.v],
                          generate_text(out))
            ELSE InternalServerError
       [] route = "insights" ->
            IF cats.ok
            THEN Response("insights",
                          IF cats.v # <<>>
                          THEN [k |-> "top", top_cat |-> MaxItem(cats.v)]
                          ELSE [k |-> "no_transactions"],
                          generate_text(out))
            ELSE InternalServerError

C10_Isolated ==
  \A w \in Workers :
    pc[w] = "done" => resp[w] = ResponseAlone(endpoint[w], data[w], outcome[w])

C10_GlobalsKept ==
  /\ use_hf' = use_hf
  /\ hf_pipeline' = hf_pipeline
  /\ PROFILE_CONTEXTS' = PROFILE_CONTEXTS

\* C10: under any interleaving of requests no handler and no generate_text
\* call, a failing one included, writes use_hf, hf_pipeline or
\* PROFILE_CONTEXTS, and each request's category totals are its own: every
\* response is the one the request gets when served alone with the same
\* backend outcome, also after an earlier backend call has failed.
C10_NoSharedState == [](C10_Isolated) /\ [][C10_GlobalsKept]_vars

\* after a backend call failed, one worker has answered with generated text
\* while another is in the middle of its category loop
C10_Witness ==
  \E w, v \in Workers :
    /\ w # v
    /\ call_failed
    /\ pc[w] = "done" /\ outcome[w].k = "text" /\ resp[w].ai # FALLBACK
    /\ endpoint[w] = "insights" /\ categories[w] # <<>>
    /\ pc[v] = "loop" /\ categories[v] # <<>> /\ categories[v] # categories[w]

====
